---- MODULE Spec2Model ----
(***************************************************************************)
(* A model of the ndk-saf JNI bridge (jni_utils.rs) and of the control     *)
(* skeleton of the document entity operations (ndk_saf.rs), followed by a  *)
(* model of the data these operations exchange with the document provider  *)
(* (the documents, their locators, the result cursor, the durable          *)
(* references of the entities).                                            *)
(*                                                                         *)
(* Every thread runs calls of the public API.  A call is a stack of        *)
(* frames, stk[t]; the head is the position the thread is at.  A step of   *)
(* the model is one lock acquisition, one critical section on one lock,    *)
(* or one group of foreign (JNI) calls made without an intervening lock    *)
(* operation.  std::sync::RwLock is modelled by its reader set and its     *)
(* writer set; a blocked acquisition is a disabled step.  No thread        *)
(* panics while it holds a write guard, so no lock is ever poisoned and    *)
(* the `else` branches of the `if let Ok(..) = LOCK.write()` tests are     *)
(* not reachable.                                                          *)
(***************************************************************************)
EXTENDS Naturals, Sequences, FiniteSets, TLC

\* Number of threads that call into the library.
NThreads == 2
\* Number of AttachGuards the caller's own code keeps alive per thread.
MaxGuards == 2
\* Number of AndroidFile values the caller keeps alive between operations.
MaxEnts == 2

Threads == 1..NThreads
Locks == {"JVM", "CL", "FCM"}

\* Option<T>: None is the empty sequence, Some(x) a one-element sequence.
None == <<>>
Some(x) == <<x>>

VARIABLES
    initOnce,           \* INIT: "incomplete", "running", "complete"
    jvm,                \* JVM: Option<&'static JavaVM>
    classLoader,        \* CLASS_LOADER: Option<GlobalRef>, a reference id
    findClassMethod,    \* FIND_CLASS_METHOD: Option<JMethodID>
    rd,                 \* rd[l]: the threads holding a read guard of lock l
    wr,                 \* wr[l]: the thread holding the write guard of l, if any
    globalRefs,         \* the class loader global references not yet deleted
    nextRef,            \* the number of class loader global references created
    cleaned,            \* history: some cleanup_class_loader call has returned
    setupSinceCleanup,  \* history: the setup closure ran after the last cleanup
    setupRuns,          \* history: how often the call_once closure was entered
    setupOutcome,       \* history: "none", "ok", "err" of setup_class_loader
    owned,              \* owned[t]: t is a thread of the runtime (always attached)
    attached,           \* attached[t]: t is attached to the JavaVM
    guards,             \* guards[t]: the live AttachGuards of t, each its
                        \*   should-detach flag, oldest first
    stk,                \* stk[t]: the frames of the running call, innermost first
    cur,                \* cur[t]: the running top-level call and its arguments
    rv,                 \* rv[t]: the value the last returned function gave
    foreign,            \* foreign[t]: the call has made a foreign call
    via,                \* via[t]: the entry point find_class resolved through
    loc,                \* loc[t]: a local Option<GlobalRef> of the running frame
    docs,               \* the documents the provider has, one record each
    ents,               \* ents[s]: Option<AndroidFile>, the values the caller keeps
    objs,               \* objs[r]: the DocumentFile object behind global reference r
    pc,                 \* the position of the running entity operation
    running,            \* the running entity operation and its arguments
    result,             \* what the operation returned: a status and the entities
    calls,              \* the foreign calls the operation has made, in order
    cursor,             \* the Cursor of list_files: its state, its rows, its position
    files,              \* `files` of list_files: the Vec<AndroidFile> being built
    obj,                \* the local DocumentFile object about to be wrapped
    failed              \* history: a foreign call or a conversion of the operation failed

bridgeVars == <<initOnce, jvm, classLoader, findClassMethod, globalRefs, nextRef>>
lockVars == <<rd, wr>>
histVars == <<cleaned, setupSinceCleanup, setupRuns, setupOutcome>>
threadVars == <<owned, attached, guards, stk, cur, rv, foreign, via, loc>>
docVars == <<docs, ents, objs, pc, running, result, calls, cursor, files, obj, failed>>
vars == <<bridgeVars, lockVars, histVars, threadVars, docVars>>

----------------------------------------------------------------------------
(* Frames and calls *)

Top(t) == IF stk[t] = <<>> THEN "idle" ELSE Head(stk[t])
Idle(t) == stk[t] = <<>>
Done(t) == stk[t] = <<"done">>

\* The stack after the innermost frame returns: the caller's frame, or "done"
\* when the top-level call itself returns.
Ret(s) == IF Tail(s) = <<>> THEN <<"done">> ELSE Tail(s)

\* The stack with the innermost frame moved to position p.
Goto(s, p) == <<p>> \o Tail(s)

CleanupFrames == {"cl_take", "cl_dropref", "cl_fcm", "cl_jvm"}

InCall(t, o) == ~Idle(t) /\ cur[t].op = o

NoCall == [op |-> "none", isDir |-> FALSE, isNull |-> FALSE, vmNull |-> FALSE,
           afterCleanup |-> FALSE, stale |-> FALSE]

\* A call of o is stale when a writer of the other kind overlaps it: a cleanup
\* overlapping an initialize call, the setup closure overlapping a cleanup call.
StaleAtEntry(o) ==
    CASE o = "initialize" -> \E u \in Threads : InCall(u, "cleanup") /\ ~Done(u)
      [] o = "cleanup" -> initOnce = "running"
      [] OTHER -> FALSE

NewCall(o, isDir, isNull, vmNull) ==
    [op |-> o, isDir |-> isDir, isNull |-> isNull, vmNull |-> vmNull,
     afterCleanup |-> (o = "initialize" /\ cleaned), stale |-> StaleAtEntry(o)]

\* cur with every running call of o marked stale.
MarkStale(c, o) ==
    [u \in Threads |-> IF stk[u] # <<>> /\ c[u].op = o
                       THEN [c[u] EXCEPT !.stale = TRUE] ELSE c[u]]

Start(t, frames, call) ==
    /\ Idle(t)
    /\ stk' = [stk EXCEPT ![t] = frames]
    /\ cur' = IF call.op = "cleanup"
              THEN MarkStale([cur EXCEPT ![t] = call], "initialize")
              ELSE [cur EXCEPT ![t] = call]
    /\ rv' = [rv EXCEPT ![t] = "none"]
    /\ foreign' = [foreign EXCEPT ![t] = FALSE]
    /\ via' = [via EXCEPT ![t] = "none"]
    /\ loc' = [loc EXCEPT ![t] = None]

----------------------------------------------------------------------------
(* Locks *)

\* The test of a writer, mutated: it does not wait for the readers.
LockFreeOfWriters(l) == wr[l] = {}
\* RwLock::write waits until no guard of the lock is alive.
LockFree(l) == rd[l] = {} /\ wr[l] = {}
CanRead(l) == wr[l] = {}
HeldBy(t) == {l \in Locks : t \in rd[l] \/ t \in wr[l]}

AcquireRead(t, l) == rd' = [rd EXCEPT ![l] = @ \cup {t}]
\* The release of read guards, mutated: the guards are never dropped.
ReleaseReadsLeak(t, ls) == rd' = rd
ReleaseReads(t, ls) == rd' = [l \in Locks |-> IF l \in ls THEN rd[l] \ {t} ELSE rd[l]]

----------------------------------------------------------------------------
(* initialize_class_loader *)

OnceShouldRunAlways(state) == state # "running"
\* Once::call_once runs the closure only from the incomplete state.
OnceShouldRun(state) == state = "incomplete"

InitResultPropagated(outcome) == IF outcome = "err" THEN "err_foreign" ELSE "ok"
\* initialize_class_loader ends with Ok(()) whatever the closure logged.
InitResult(outcome) == "ok"

CallInitialize(t, vmNull) ==
    /\ attached[t]
    /\ Start(t, <<"init_once">>, NewCall("initialize", FALSE, FALSE, vmNull))
    /\ UNCHANGED <<bridgeVars, lockVars, histVars, owned, attached, guards,
                   docVars>>

\* INIT.call_once on a completed Once: the closure is skipped.
InitOnceSkip(t) ==
    /\ Top(t) = "init_once"
    /\ initOnce # "running"
    /\ ~OnceShouldRun(initOnce)
    /\ stk' = [stk EXCEPT ![t] = Ret(@)]
    /\ rv' = [rv EXCEPT ![t] = InitResult(setupOutcome)]
    /\ UNCHANGED <<bridgeVars, lockVars, histVars, owned, attached, guards, cur,
                   foreign, via, loc, docVars>>

\* INIT.call_once entering the closure; a caller that finds it running waits.
InitOnceEnter(t) ==
    /\ Top(t) = "init_once"
    /\ initOnce # "running"
    /\ OnceShouldRun(initOnce)
    /\ initOnce' = "running"
    /\ setupRuns' = setupRuns + 1
    /\ setupSinceCleanup' = TRUE
    /\ stk' = [stk EXCEPT ![t] = Goto(@, "init_jvm")]
    /\ cur' = MarkStale(cur, "cleanup")
    /\ UNCHANGED <<jvm, classLoader, findClassMethod, globalRefs, nextRef,
                   lockVars, cleaned, setupOutcome, owned, attached, guards,
                   rv, foreign, via, loc, docVars>>

\* JVM.write(), JavaVM::from_raw(vm), *jvm_lock = Some(..): from_raw fails on a
\* null pointer and the handle is then not stored.
InitStoreJvm(t) ==
    /\ Top(t) = "init_jvm"
    /\ LockFree("JVM")
    /\ jvm' = IF cur[t].vmNull THEN jvm ELSE Some("vm")
    /\ stk' = [stk EXCEPT ![t] = Goto(@, "init_setup")]
    /\ UNCHANGED <<initOnce, classLoader, findClassMethod, globalRefs, nextRef,
                   lockVars, histVars, owned, attached, guards, cur, rv,
                   foreign, via, loc, docVars>>

\* setup_class_loader(env): foreign calls with no lock held.  On success a new
\* global reference to the class loader exists; on failure nothing is kept.
InitSetup(t) ==
    /\ Top(t) = "init_setup"
    /\ foreign' = [foreign EXCEPT ![t] = TRUE]
    /\ \E ok \in BOOLEAN :
        IF ok
        THEN /\ nextRef' = nextRef + 1
             /\ globalRefs' = globalRefs \cup {nextRef + 1}
             /\ loc' = [loc EXCEPT ![t] = Some(nextRef + 1)]
             /\ setupOutcome' = "ok"
             /\ stk' = [stk EXCEPT ![t] = Goto(@, "init_wr_cl")]
        ELSE /\ setupOutcome' = "err"
             /\ stk' = [stk EXCEPT ![t] = Goto(@, "init_finish")]
             /\ UNCHANGED <<nextRef, globalRefs, loc>>
    /\ UNCHANGED <<initOnce, jvm, classLoader, findClassMethod, lockVars,
                   cleaned, setupSinceCleanup, setupRuns, owned, attached,
                   guards, cur, rv, via, docVars>>

\* CLASS_LOADER.write(), the first element of the tuple.
InitLockCl(t) ==
    /\ Top(t) = "init_wr_cl"
    /\ LockFree("CL")
    /\ wr' = [wr EXCEPT !["CL"] = {t}]
    /\ stk' = [stk EXCEPT ![t] = Goto(@, "init_wr_fcm")]
    /\ UNCHANGED <<bridgeVars, rd, histVars, owned, attached, guards, cur, rv,
                   foreign, via, loc, docVars>>

\* FIND_CLASS_METHOD.write(), then both values are stored under both guards,
\* and both guards are released.
InitWriteBoth(t) ==
    /\ Top(t) = "init_wr_fcm"
    /\ LockFree("FCM")
    /\ classLoader' = loc[t]
    /\ findClassMethod' = Some("findClass")
    /\ wr' = [wr EXCEPT !["CL"] = {}]
    /\ stk' = [stk EXCEPT ![t] = Goto(@, "init_finish")]
    /\ UNCHANGED <<initOnce, jvm, globalRefs, nextRef, rd, histVars, owned,
                   attached, guards, cur, rv, foreign, via, loc, docVars>>

\* The closure returns: the Once is complete and the call returns Ok(()).
InitFinish(t) ==
    /\ Top(t) = "init_finish"
    /\ initOnce' = "complete"
    /\ stk' = [stk EXCEPT ![t] = Ret(@)]
    /\ rv' = [rv EXCEPT ![t] = InitResult(setupOutcome)]
    /\ UNCHANGED <<jvm, classLoader, findClassMethod, globalRefs, nextRef,
                   lockVars, histVars, owned, attached, guards, cur, foreign,
                   via, loc, docVars>>

----------------------------------------------------------------------------
(* get_env and the AttachGuard *)

GetEnvNeverAbsent(j) == FALSE
\* jvm_lock.as_ref().ok_or_else(..): the handle is absent.
GetEnvAbsent(j) == j = None

GuardAlwaysDetaches(g) == TRUE
\* Dropping an AttachGuard detaches the thread when the guard's own
\* attach_current_thread call attached it.
GuardDetaches(g) == g

\* The caller's own code calls get_env and keeps the guard.
CallGetEnv(t) ==
    /\ Len(guards[t]) < MaxGuards
    /\ Start(t, <<"ge_read">>, NewCall("get_env", FALSE, FALSE, FALSE))
    /\ UNCHANGED <<bridgeVars, lockVars, histVars, owned, attached, guards,
                   docVars>>

\* JVM.read() and the test of the handle; on None the guard of the lock is
\* dropped by the early return.
GeRead(t) ==
    /\ Top(t) = "ge_read"
    /\ CanRead("JVM")
    /\ IF GetEnvAbsent(jvm)
       THEN /\ rv' = [rv EXCEPT ![t] = "err_uninit"]
            /\ stk' = [stk EXCEPT ![t] = Ret(@)]
            /\ UNCHANGED rd
       ELSE /\ AcquireRead(t, "JVM")
            /\ stk' = [stk EXCEPT ![t] = Goto(@, "ge_attach")]
            /\ UNCHANGED rv
    /\ UNCHANGED <<bridgeVars, wr, histVars, owned, attached, guards, cur,
                   foreign, via, loc, docVars>>

\* java_vm.attach_current_thread() succeeds, called with the read guard of
\* JVM alive: a thread that is attached gets a guard that does not detach, a
\* thread that is not is attached and its guard detaches.
GeAttachOk(t) ==
    /\ Top(t) = "ge_attach"
    /\ ReleaseReads(t, {"JVM"})
    /\ foreign' = [foreign EXCEPT ![t] = TRUE]
    /\ guards' = [guards EXCEPT ![t] = Append(@, ~attached[t])]
    /\ attached' = [attached EXCEPT ![t] = TRUE]
    /\ rv' = [rv EXCEPT ![t] = "ok"]
    /\ stk' = [stk EXCEPT ![t] = Ret(@)]
    /\ UNCHANGED <<bridgeVars, wr, histVars, owned, cur, via, loc, docVars>>

\* java_vm.attach_current_thread() fails to attach the thread.
GeAttachFail(t) ==
    /\ Top(t) = "ge_attach"
    /\ ~attached[t]
    /\ ReleaseReads(t, {"JVM"})
    /\ foreign' = [foreign EXCEPT ![t] = TRUE]
    /\ rv' = [rv EXCEPT ![t] = "err_attach"]
    /\ stk' = [stk EXCEPT ![t] = Ret(@)]
    /\ UNCHANGED <<bridgeVars, wr, histVars, owned, attached, guards, cur, via,
                   loc, docVars>>

RemoveAt(s, i) == SubSeq(s, 1, i - 1) \o SubSeq(s, i + 1, Len(s))

\* The attachment after guard i of thread t is dropped.
AfterDrop(t, i) == IF GuardDetaches(guards[t][i]) THEN FALSE ELSE attached[t]

\* The caller's own code drops one of the guards it keeps.
ReleaseGuard(t, i) ==
    /\ Idle(t)
    /\ i \in 1..Len(guards[t])
    /\ attached' = [attached EXCEPT ![t] = AfterDrop(t, i)]
    /\ guards' = [guards EXCEPT ![t] = RemoveAt(@, i)]
    /\ UNCHANGED <<bridgeVars, lockVars, histVars, owned, stk, cur, rv,
                   foreign, via, loc, docVars>>

\* The innermost guard goes out of scope at the end of a function.
DropScopedGuard(t) ==
    /\ attached' = [attached EXCEPT ![t] = AfterDrop(t, Len(guards[t]))]
    /\ guards' = [guards EXCEPT ![t] = RemoveAt(@, Len(@))]

----------------------------------------------------------------------------
(* find_class *)

FindViaDefaultOnly(cl) == "default"
\* `if let Some(class_loader) = class_loader_lock.as_ref()`: the cached class
\* loader when present, else env.find_class.
FindVia(cl) == IF cl # None THEN "loader" ELSE "default"

CallFindClass(t) ==
    /\ Start(t, <<"ge_read", "fc_after_env">>, NewCall("find_class", FALSE, FALSE, FALSE))
    /\ UNCHANGED <<bridgeVars, lockVars, histVars, owned, attached, guards,
                   docVars>>

\* `let mut env_guard = get_env()?;`
FcAfterEnv(t) ==
    /\ Top(t) = "fc_after_env"
    /\ stk' = [stk EXCEPT ![t] = IF rv[t] = "ok" THEN Goto(@, "fc_rd_cl") ELSE Ret(@)]
    /\ UNCHANGED <<bridgeVars, lockVars, histVars, owned, attached, guards, cur,
                   rv, foreign, via, loc, docVars>>

\* CLASS_LOADER.read(), the first element of the tuple.
FcReadCl(t) ==
    /\ Top(t) = "fc_rd_cl"
    /\ CanRead("CL")
    /\ AcquireRead(t, "CL")
    /\ stk' = [stk EXCEPT ![t] = Goto(@, "fc_rd_fcm")]
    /\ UNCHANGED <<bridgeVars, wr, histVars, owned, attached, guards, cur, rv,
                   foreign, via, loc, docVars>>

\* FIND_CLASS_METHOD.read(), then the test of the cached class loader.
FcReadFcm(t) ==
    /\ Top(t) = "fc_rd_fcm"
    /\ CanRead("FCM")
    /\ AcquireRead(t, "FCM")
    /\ loc' = [loc EXCEPT ![t] = classLoader]
    /\ stk' = [stk EXCEPT ![t] = Goto(@, IF FindVia(classLoader) = "loader"
                                        THEN "fc_call_loader"
                                        ELSE "fc_call_default")]
    /\ UNCHANGED <<bridgeVars, wr, histVars, owned, attached, guards, cur, rv,
                   foreign, via, docVars>>

\* env.new_string and the class loader's findClass, or env.find_class: the
\* foreign calls are made inside the `if let` that holds both read guards,
\* which are released when its block is left.
FcLookup(t) ==
    /\ Top(t) \in {"fc_call_loader", "fc_call_default"}
    /\ foreign' = [foreign EXCEPT ![t] = TRUE]
    /\ via' = [via EXCEPT ![t] = IF Top(t) = "fc_call_loader" THEN "loader" ELSE "default"]
    /\ \E ok \in BOOLEAN : rv' = [rv EXCEPT ![t] = IF ok THEN "ok" ELSE "err_foreign"]
    /\ ReleaseReads(t, {"CL", "FCM"})
    /\ stk' = [stk EXCEPT ![t] = Goto(@, "fc_drop")]
    /\ UNCHANGED <<bridgeVars, wr, histVars, owned, attached, guards, cur, loc,
                   docVars>>

\* env_guard is dropped when find_class returns.
FcDrop(t) ==
    /\ Top(t) = "fc_drop"
    /\ DropScopedGuard(t)
    /\ stk' = [stk EXCEPT ![t] = Ret(@)]
    /\ UNCHANGED <<bridgeVars, lockVars, histVars, owned, cur, rv, foreign,
                   via, loc, docVars>>

----------------------------------------------------------------------------
(* cleanup_class_loader *)

CleanupKeepsJvm(j) == j
\* `*jvm_lock = None`
CleanupJvm(j) == None

CallCleanup(t) ==
    /\ Start(t, <<"cl_take">>, NewCall("cleanup", FALSE, FALSE, FALSE))
    /\ UNCHANGED <<bridgeVars, lockVars, histVars, owned, attached, guards,
                   docVars>>

\* CLASS_LOADER.write() and take(): the guard is released at once when there
\* was no reference, and after the reference is dropped when there was one.
ClTake(t) ==
    /\ Top(t) = "cl_take"
    /\ LockFree("CL")
    /\ classLoader' = None
    /\ IF classLoader # None
       THEN /\ wr' = [wr EXCEPT !["CL"] = {t}]
            /\ loc' = [loc EXCEPT ![t] = classLoader]
            /\ stk' = [stk EXCEPT ![t] = Goto(@, "cl_dropref")]
       ELSE /\ stk' = [stk EXCEPT ![t] = Goto(@, "cl_fcm")]
            /\ UNCHANGED <<wr, loc>>
    /\ UNCHANGED <<initOnce, jvm, findClassMethod, globalRefs, nextRef, rd,
                   histVars, owned, attached, guards, cur, rv, foreign, via,
                   docVars>>

\* The taken GlobalRef is dropped (DeleteGlobalRef, a foreign call) while the
\* write guard of CLASS_LOADER is alive, then the guard is released.
ClDropRef(t) ==
    /\ Top(t) = "cl_dropref"
    /\ globalRefs' = globalRefs \ {loc[t][1]}
    /\ foreign' = [foreign EXCEPT ![t] = TRUE]
    /\ loc' = [loc EXCEPT ![t] = None]
    /\ wr' = [wr EXCEPT !["CL"] = {}]
    /\ stk' = [stk EXCEPT ![t] = Goto(@, "cl_fcm")]
    /\ UNCHANGED <<initOnce, jvm, classLoader, findClassMethod, nextRef, rd,
                   histVars, owned, attached, guards, cur, rv, via, docVars>>

\* FIND_CLASS_METHOD.write() and `*find_class_method_lock = None`.
ClFcm(t) ==
    /\ Top(t) = "cl_fcm"
    /\ LockFree("FCM")
    /\ findClassMethod' = None
    /\ stk' = [stk EXCEPT ![t] = Goto(@, "cl_jvm")]
    /\ UNCHANGED <<initOnce, jvm, classLoader, globalRefs, nextRef, lockVars,
                   histVars, owned, attached, guards, cur, rv, foreign, via, loc,
                   docVars>>

\* JVM.write() and `*jvm_lock = None`; the function returns.
ClJvm(t) ==
    /\ Top(t) = "cl_jvm"
    /\ LockFree("JVM")
    /\ jvm' = CleanupJvm(jvm)
    /\ cleaned' = TRUE
    /\ setupSinceCleanup' = FALSE
    /\ rv' = [rv EXCEPT ![t] = "ok"]
    /\ stk' = [stk EXCEPT ![t] = Ret(@)]
    /\ UNCHANGED <<initOnce, classLoader, findClassMethod, globalRefs, nextRef,
                   lockVars, setupRuns, setupOutcome, owned, attached, guards,
                   cur, foreign, via, loc, docVars>>

----------------------------------------------------------------------------
(* is_class_loader_initialized *)

CallIsInitialized(t) ==
    /\ Start(t, <<"q_cl">>, NewCall("is_initialized", FALSE, FALSE, FALSE))
    /\ UNCHANGED <<bridgeVars, lockVars, histVars, owned, attached, guards,
                   docVars>>

\* CLASS_LOADER.read(), the first element of the tuple.
QReadCl(t) ==
    /\ Top(t) = "q_cl"
    /\ CanRead("CL")
    /\ AcquireRead(t, "CL")
    /\ stk' = [stk EXCEPT ![t] = Goto(@, "q_fcm")]
    /\ UNCHANGED <<bridgeVars, wr, histVars, owned, attached, guards, cur, rv,
                   foreign, via, loc, docVars>>

\* FIND_CLASS_METHOD.read(), the second element.
QReadFcm(t) ==
    /\ Top(t) = "q_fcm"
    /\ CanRead("FCM")
    /\ AcquireRead(t, "FCM")
    /\ stk' = [stk EXCEPT ![t] = Goto(@, "q_jvm")]
    /\ UNCHANGED <<bridgeVars, wr, histVars, owned, attached, guards, cur, rv,
                   foreign, via, loc, docVars>>

\* JVM.read(), the conjunction of the three is_some(), and the three guards
\* are released.
QReadJvm(t) ==
    /\ Top(t) = "q_jvm"
    /\ CanRead("JVM")
    /\ rv' = [rv EXCEPT ![t] = IF classLoader # None /\ findClassMethod # None /\ jvm # None
                               THEN "true" ELSE "false"]
    /\ ReleaseReads(t, {"CL", "FCM"})
    /\ stk' = [stk EXCEPT ![t] = Ret(@)]
    /\ UNCHANGED <<bridgeVars, wr, histVars, owned, attached, guards, cur,
                   foreign, via, loc, docVars>>

----------------------------------------------------------------------------
(* The document entity operations of ndk_saf.rs: their control skeleton.   *)
(* One step stands for a group of foreign calls made with no lock          *)
(* operation in between; each group succeeds or fails as the platform      *)
(* decides.                                                                *)

EntityOps == {"from_tree_url", "from_document_file", "open", "list_files",
              "create_file", "create_directory", "remove_file"}
KindGuarded == {"open", "list_files", "create_file", "create_directory"}
\* The operations that start with get_global_context, i.e. with find_class.
NeedsContext == {"from_tree_url", "open", "list_files"}
\* The operations that end with from_document_file on the object they made.
WrapsObject == {"from_tree_url", "create_file", "create_directory"}

KindMismatchNoList(o, isDir) ==
    \/ o = "open" /\ isDir
    \/ o \in {"create_file", "create_directory"} /\ ~isDir
\* `if self.is_dir` of open, `if !self.is_dir` of list_files, create_file and
\* create_directory.
KindMismatch(o, isDir) ==
    \/ o = "open" /\ isDir
    \/ o \in {"list_files", "create_file", "create_directory"} /\ ~isDir

\* An operation is called on an entity (isDir) or on a DocumentFile object
\* (isNull).
CallEntity(t, o, isDir, isNull) ==
    /\ Start(t, IF o = "from_document_file" THEN <<"fd_null">> ELSE <<"op_guard">>,
             NewCall(o, isDir, isNull, FALSE))
    /\ UNCHANGED <<bridgeVars, lockVars, histVars, owned, attached, guards,
                   docVars>>

\* The kind guard, then `let env_guard = get_env()?;`
OpGuard(t) ==
    /\ Top(t) = "op_guard"
    /\ IF KindMismatch(cur[t].op, cur[t].isDir)
       THEN /\ rv' = [rv EXCEPT ![t] = "err_kind"]
            /\ stk' = [stk EXCEPT ![t] = Ret(@)]
       ELSE /\ stk' = [stk EXCEPT ![t] = <<"ge_read", "op_after_env">> \o Tail(@)]
            /\ UNCHANGED rv
    /\ UNCHANGED <<bridgeVars, lockVars, histVars, owned, attached, guards, cur,
                   foreign, via, loc, docVars>>

\* get_env failed: the operation returns its error.  Otherwise
\* get_global_context calls find_class, or the operation's foreign calls start.
OpAfterEnv(t) ==
    /\ Top(t) = "op_after_env"
    /\ stk' = [stk EXCEPT ![t] =
                 IF rv[t] # "ok" THEN Ret(@)
                 ELSE IF cur[t].op \in NeedsContext
                      THEN <<"ge_read", "fc_after_env", "op_after_ctx">> \o Tail(@)
                      ELSE Goto(@, "op_body")]
    /\ UNCHANGED <<bridgeVars, lockVars, histVars, owned, attached, guards, cur,
                   rv, foreign, via, loc, docVars>>

\* `let activity_thread = find_class(..)?;` in get_global_context.
OpAfterCtx(t) ==
    /\ Top(t) = "op_after_ctx"
    /\ stk' = [stk EXCEPT ![t] = Goto(@, IF rv[t] = "ok" THEN "op_body" ELSE "op_drop")]
    /\ UNCHANGED <<bridgeVars, lockVars, histVars, owned, attached, guards, cur,
                   rv, foreign, via, loc, docVars>>

\* The foreign calls of the operation fail: the error is returned with `?`.
OpBodyFail(t) ==
    /\ Top(t) \in {"op_body", "op_after_cls"}
    /\ Top(t) = "op_after_cls" => rv[t] = "ok"
    /\ foreign' = [foreign EXCEPT ![t] = TRUE]
    /\ rv' = [rv EXCEPT ![t] = "err_foreign"]
    /\ stk' = [stk EXCEPT ![t] = Goto(@, "op_drop")]
    /\ UNCHANGED <<bridgeVars, lockVars, histVars, owned, attached, guards, cur,
                   via, loc, docVars>>

\* The foreign calls of open, list_files and remove_file succeed.
OpBodyOk(t) ==
    /\ Top(t) = "op_body"
    /\ cur[t].op \notin WrapsObject
    /\ foreign' = [foreign EXCEPT ![t] = TRUE]
    /\ rv' = [rv EXCEPT ![t] = "ok"]
    /\ stk' = [stk EXCEPT ![t] = Goto(@, "op_drop")]
    /\ UNCHANGED <<bridgeVars, lockVars, histVars, owned, attached, guards, cur,
                   via, loc, docVars>>

\* from_tree_url found that the locator is not the root's:
\* `find_class("androidx/documentfile/provider/TreeDocumentFile")?`
OpBodyDescendant(t) ==
    /\ Top(t) = "op_body"
    /\ cur[t].op = "from_tree_url"
    /\ foreign' = [foreign EXCEPT ![t] = TRUE]
    /\ stk' = [stk EXCEPT ![t] = <<"ge_read", "fc_after_env", "op_after_cls">> \o Tail(@)]
    /\ UNCHANGED <<bridgeVars, lockVars, histVars, owned, attached, guards, cur,
                   rv, via, loc, docVars>>

\* find_class for the TreeDocumentFile class failed.
OpAfterClsFail(t) ==
    /\ Top(t) = "op_after_cls"
    /\ rv[t] # "ok"
    /\ stk' = [stk EXCEPT ![t] = Goto(@, "op_drop")]
    /\ UNCHANGED <<bridgeVars, lockVars, histVars, owned, attached, guards, cur,
                   rv, foreign, via, loc, docVars>>

\* The operation has the object it wraps (the root, the new TreeDocumentFile,
\* the created document, which the platform may give as null) and calls
\* from_document_file on it.
OpWrap(t, isNull) ==
    /\ \/ Top(t) = "op_body" /\ cur[t].op \in WrapsObject
       \/ Top(t) = "op_after_cls" /\ rv[t] = "ok"
    /\ isNull => cur[t].op \in {"create_file", "create_directory"}
    /\ foreign' = [foreign EXCEPT ![t] = TRUE]
    /\ cur' = [cur EXCEPT ![t].isNull = isNull]
    /\ stk' = [stk EXCEPT ![t] = <<"fd_null", "op_drop">> \o Tail(@)]
    /\ UNCHANGED <<bridgeVars, lockVars, histVars, owned, attached, guards, rv,
                   via, loc, docVars>>

\* env_guard (and the context reference) go out of scope; the operation
\* returns what it has.
OpDrop(t) ==
    /\ Top(t) = "op_drop"
    /\ DropScopedGuard(t)
    /\ stk' = [stk EXCEPT ![t] = Ret(@)]
    /\ UNCHANGED <<bridgeVars, lockVars, histVars, owned, cur, rv, foreign,
                   via, loc, docVars>>

\* from_document_file: the null test, then `let env_guard = get_env()?;`
FdNull(t) ==
    /\ Top(t) = "fd_null"
    /\ IF cur[t].isNull
       THEN /\ rv' = [rv EXCEPT ![t] = "err_null"]
            /\ stk' = [stk EXCEPT ![t] = Ret(@)]
       ELSE /\ stk' = [stk EXCEPT ![t] = <<"ge_read", "fd_after_env">> \o Tail(@)]
            /\ UNCHANGED rv
    /\ UNCHANGED <<bridgeVars, lockVars, histVars, owned, attached, guards, cur,
                   foreign, via, loc, docVars>>

FdAfterEnv(t) ==
    /\ Top(t) = "fd_after_env"
    /\ stk' = [stk EXCEPT ![t] = IF rv[t] = "ok" THEN Goto(@, "fd_read") ELSE Ret(@)]
    /\ UNCHANGED <<bridgeVars, lockVars, histVars, owned, attached, guards, cur,
                   rv, foreign, via, loc, docVars>>

\* getName, length, getUri, getPath, toString, isDirectory, new_global_ref.
FdRead(t) ==
    /\ Top(t) = "fd_read"
    /\ foreign' = [foreign EXCEPT ![t] = TRUE]
    /\ \E ok \in BOOLEAN : rv' = [rv EXCEPT ![t] = IF ok THEN "ok" ELSE "err_foreign"]
    /\ stk' = [stk EXCEPT ![t] = Goto(@, "fd_drop")]
    /\ UNCHANGED <<bridgeVars, lockVars, histVars, owned, attached, guards, cur,
                   via, loc, docVars>>

\* env_guard of from_document_file goes out of scope.
FdDrop(t) ==
    /\ Top(t) = "fd_drop"
    /\ DropScopedGuard(t)
    /\ stk' = [stk EXCEPT ![t] = Ret(@)]
    /\ UNCHANGED <<bridgeVars, lockVars, histVars, owned, cur, rv, foreign,
                   via, loc, docVars>>

----------------------------------------------------------------------------
(* The document provider as the entity operations see it through their     *)
(* foreign calls: documents with an id, a display name, a size, a MIME     *)
(* type and a parent.  A locator (content URI) is a string, modelled as    *)
(* the sequence of its parts; a display name is a Java string, the         *)
(* sequence of its UTF-16 code units.                                      *)

Slots == 1..MaxEnts

\* DocumentsContract.Document.MIME_TYPE_DIR, and a MIME type of a file.
MimeTypeDir == "vnd.android.document/directory"
MimeText == "text/plain"

\* The tree the user granted: content://a/tree/12, whose root document has
\* the id "12".  Document ids are opaque strings the provider chooses.
RootId == <<"1", "2">>
TreeUrl == <<"content://a", "/tree/">> \o RootId
\* DocumentsContract.buildDocumentUriUsingTree(tree, id).toString()
DocUrl(id) == TreeUrl \o <<"/document/">> \o id

DocMarks(url) == {i \in 1..Len(url) : url[i] = "/document/"}
FirstDocMark(url) == CHOOSE i \in DocMarks(url) : \A j \in DocMarks(url) : i <= j
\* DocumentsContract.getTreeDocumentId(uri): the segment after /tree/.
TreeDocumentId(url) ==
    SubSeq(url, 3, IF DocMarks(url) = {} THEN Len(url) ELSE FirstDocMark(url) - 1)
\* DocumentsContract.getDocumentId(uri): the segment after /document/; a
\* uri without one names no document.
DocumentId(url) ==
    IF DocMarks(url) = {} THEN <<>> ELSE SubSeq(url, FirstDocMark(url) + 1, Len(url))
\* Uri.getPath(): the locator without scheme and authority.
UriPath(url) == Tail(url)

\* `parent_str.starts_with(&input_str)`
StartsWith(s, p) == Len(p) <= Len(s) /\ SubSeq(s, 1, Len(p)) = p

\* The display names: "a.txt", "b.txt", "c.txt".
NameA == <<97, 46, 116, 120, 116>>
NameB == <<98, 46, 116, 120, 116>>
NameC == <<99, 46, 116, 120, 116>>
\* U+1F600, which a Java string holds as a pair of surrogates.
NameE == <<55357, 56832>>

MkDoc(id, name, size, mime, parent) ==
    [id |-> id, name |-> name, size |-> size, mime |-> mime, parent |-> parent]

\* The root, named "r".
RootDoc == MkDoc(RootId, <<114>>, 0, MimeTypeDir, None)
\* The documents the tree may hold besides its root: three children of the
\* root, one of them a directory, and two children of that directory that
\* are both named "f.txt" (display names are not unique within a parent).
OtherDocs ==
    { MkDoc(<<"1">>, NameB, 1, MimeText, Some(RootId)),
      MkDoc(<<"2">>, NameA, 2, MimeText, Some(RootId)),
      MkDoc(<<"3">>, NameC, 0, MimeTypeDir, Some(RootId)),
      MkDoc(<<"3", "1">>, <<102, 46, 116, 120, 116>>, 4, MimeText, Some(<<"3">>)),
      MkDoc(<<"3", "2">>, <<102, 46, 116, 120, 116>>, 5, MimeText, Some(<<"3">>)) }
\* The id the provider gives to a document it creates.
FreshIds == {<<"4">>}
\* The locators a caller may hold: the tree's and those of the documents.
Urls ==
    {TreeUrl} \cup {DocUrl(id) : id \in {d.id : d \in OtherDocs \cup {RootDoc}} \cup FreshIds}

Exists(id) == \E d \in docs : d.id = id
Doc(id) == CHOOSE d \in docs : d.id = id
Children(id) == {d \in docs : d.parent = Some(id)}
\* Every document but the root has its parent in the tree.
WellFormed(ds) ==
    /\ RootDoc \in ds
    /\ \A d, e \in ds : d.id = e.id => d = e
    /\ \A d \in ds : d.parent # None => \E e \in ds : Some(e.id) = d.parent
\* A document and all that is below it.
RECURSIVE Below(_, _)
Below(ds, ids) ==
    LET more == {d.id : d \in {e \in ds : \E i \in ids : e.parent = Some(i)}}
    IN IF more \subseteq ids THEN ids ELSE Below(ds, ids \cup more)

\* A row of the four-column projection.
Row(d) == [document_id |-> d.id, display_name |-> d.name, size |-> d.size,
           mime_type |-> d.mime]

----------------------------------------------------------------------------
(* Strings on the Rust side *)

\* JNI gives a Java string in modified UTF-8, where a surrogate code unit
\* and U+0000 have byte sequences that are not UTF-8.
Undecodable(u) == u = 0 \/ (u >= 55296 /\ u <= 57343)
IsLossy(js) == \E i \in 1..Len(js) : Undecodable(js[i])
\* to_string_lossy on these bytes: the characters of the string, every byte
\* that is not UTF-8 replaced by U+FFFD.
RECURSIVE ToStringLossy(_)
ToStringLossy(js) ==
    IF js = <<>> THEN <<>>
    ELSE (IF js[1] = 0 THEN <<65533, 65533>>
          ELSE IF Undecodable(js[1]) THEN <<65533, 65533, 65533>>
          ELSE <<js[1]>>) \o ToStringLossy(Tail(js))

\* String::cmp: lexicographic by character.
RECURSIVE StrCmp(_, _)
StrCmp(a, b) ==
    IF a = <<>> THEN (IF b = <<>> THEN "equal" ELSE "less")
    ELSE IF b = <<>> THEN "greater"
    ELSE IF a[1] < b[1] THEN "less"
    ELSE IF a[1] > b[1] THEN "greater"
    ELSE StrCmp(Tail(a), Tail(b))

\* The comparator given to sort_by, mutated: it compares b with a.
CompareReversed(a, b) == StrCmp(b.filename, a.filename)
\* `|a, b| a.filename.cmp(&b.filename)`
Compare(a, b) == StrCmp(a.filename, b.filename)

\* slice::sort_by is a stable sort: v with e put after the elements that do
\* not compare greater than e.
RECURSIVE InsertSorted(_, _)
InsertSorted(v, e) ==
    IF v = <<>> THEN <<e>>
    ELSE IF Compare(e, v[Len(v)]) = "less"
         THEN InsertSorted(SubSeq(v, 1, Len(v) - 1), e) \o <<v[Len(v)]>>
         ELSE v \o <<e>>
RECURSIVE SortBy(_)
SortBy(v) ==
    IF v = <<>> THEN <<>>
    ELSE InsertSorted(SortBy(SubSeq(v, 1, Len(v) - 1)), v[Len(v)])

----------------------------------------------------------------------------
(* Entities, global references, the running operation *)

\* An AndroidFile; `by` is history, the function that made the value.
MkEntity(filename, size, path, url, is_dir, ref, by) ==
    [filename |-> filename, size |-> size, path |-> path, url |-> url,
     is_dir |-> is_dir, document_file |-> ref, by |-> by]

\* A DocumentFile object: a TreeDocumentFile or a SingleDocumentFile of a uri.
MkObject(kind, uri) == [kind |-> kind, uri |-> uri]

\* The global references in use, and the one NewGlobalRef gives next.
Refs == {o.ref : o \in objs}
NewRef == CHOOSE n \in 1..(Cardinality(objs) + 1) : n \notin Refs
Object(r) == CHOOSE o \in objs : o.ref = r

NoOp == [op |-> "none", self |-> None, url |-> <<>>, name |-> <<>>]
NoResult == [status |-> "none", value |-> <<>>]
NoCursor == [state |-> "none", rows |-> {}, pos |-> 0]

\* The entity values that are alive: the caller's, the ones of `files`, the
\* ones of a result the caller has not yet taken.
Live ==
    [s \in {s \in Slots : ents[s] # None} |-> ents[s][1]]
LiveSeq == files \o result.value
\* The number of live entity values that hold global reference r.
Holders(r) ==
    Cardinality({s \in DOMAIN Live : Live[s].document_file = r})
    + Cardinality({i \in 1..Len(LiveSeq) : LiveSeq[i].document_file = r})

\* No entity operation runs and the caller holds no entity.
NoDocs ==
    /\ docs = {RootDoc}
    /\ ents = [s \in Slots |-> None]
    /\ objs = {}
    /\ pc = "idle"
    /\ running = NoOp
    /\ result = NoResult
    /\ calls = <<>>
    /\ cursor = NoCursor
    /\ files = <<>>
    /\ obj = None
    /\ failed = FALSE

----------------------------------------------------------------------------
(* The caller *)

\* The caller has its result and goes on.
Return(t) ==
    /\ Done(t)
    /\ stk' = [stk EXCEPT ![t] = <<>>]
    /\ cur' = [cur EXCEPT ![t] = NoCall]
    /\ rv' = [rv EXCEPT ![t] = "none"]
    /\ foreign' = [foreign EXCEPT ![t] = FALSE]
    /\ via' = [via EXCEPT ![t] = "none"]
    /\ loc' = [loc EXCEPT ![t] = None]
    /\ UNCHANGED <<bridgeVars, lockVars, histVars, owned, attached, guards,
                   docVars>>

Init ==
    /\ initOnce = "incomplete"
    /\ jvm = None
    /\ classLoader = None
    /\ findClassMethod = None
    /\ rd = [l \in Locks |-> {}]
    /\ wr = [l \in Locks |-> {}]
    /\ globalRefs = {}
    /\ nextRef = 0
    /\ cleaned = FALSE
    /\ setupSinceCleanup = FALSE
    /\ setupRuns = 0
    /\ setupOutcome = "none"
    /\ owned \in [Threads -> BOOLEAN]
    /\ attached = owned
    /\ guards = [t \in Threads |-> <<>>]
    /\ stk = [t \in Threads |-> <<>>]
    /\ cur = [t \in Threads |-> NoCall]
    /\ rv = [t \in Threads |-> "none"]
    /\ foreign = [t \in Threads |-> FALSE]
    /\ via = [t \in Threads |-> "none"]
    /\ loc = [t \in Threads |-> None]
    /\ NoDocs

InitializeStep(t) ==
    \/ InitOnceSkip(t)
    \/ InitOnceEnter(t)
    \/ InitStoreJvm(t)
    \/ InitSetup(t)
    \/ InitLockCl(t)
    \/ InitWriteBoth(t)
    \/ InitFinish(t)

GetEnvStep(t) ==
    \/ GeRead(t)
    \/ GeAttachOk(t)
    \/ GeAttachFail(t)

FindClassStep(t) ==
    \/ FcAfterEnv(t)
    \/ FcReadCl(t)
    \/ FcReadFcm(t)
    \/ FcLookup(t)
    \/ FcDrop(t)

CleanupStep(t) ==
    \/ ClTake(t)
    \/ ClDropRef(t)
    \/ ClFcm(t)
    \/ ClJvm(t)

IsInitializedStep(t) ==
    \/ QReadCl(t)
    \/ QReadFcm(t)
    \/ QReadJvm(t)

EntityStep(t) ==
    \/ OpGuard(t)
    \/ OpAfterEnv(t)
    \/ OpAfterCtx(t)
    \/ OpBodyFail(t)
    \/ OpBodyOk(t)
    \/ OpBodyDescendant(t)
    \/ OpAfterClsFail(t)
    \/ \E isNull \in BOOLEAN : OpWrap(t, isNull)
    \/ OpDrop(t)
    \/ FdNull(t)
    \/ FdAfterEnv(t)
    \/ FdRead(t)
    \/ FdDrop(t)

\* The calls of the bridge's public functions.
BridgeCall(t) ==
    \/ \E vmNull \in BOOLEAN : CallInitialize(t, vmNull)
    \/ CallGetEnv(t)
    \/ \E i \in 1..MaxGuards : ReleaseGuard(t, i)
    \/ CallFindClass(t)
    \/ CallCleanup(t)
    \/ CallIsInitialized(t)

\* The bridge: every thread calls the functions of jni_utils.rs.
Next ==
    \E t \in Threads :
        \/ BridgeCall(t)
        \/ InitializeStep(t)
        \/ GetEnvStep(t)
        \/ FindClassStep(t)
        \/ CleanupStep(t)
        \/ IsInitializedStep(t)
        \/ Return(t)

Spec == Init /\ [][Next]_vars

\* The calls of the entity layer, with find_class, which it uses, and the
\* two writers of the bridge.
OpsCall(t) ==
    \/ \E vmNull \in BOOLEAN : CallInitialize(t, vmNull)
    \/ CallCleanup(t)
    \/ CallFindClass(t)
    \/ \E o \in EntityOps, isDir \in BOOLEAN, isNull \in BOOLEAN :
          /\ isDir => o \in KindGuarded
          /\ isNull => o = "from_document_file"
          /\ CallEntity(t, o, isDir, isNull)

\* The entity layer: every thread calls the operations of ndk_saf.rs while
\* the bridge is initialized and cleaned up.
NextOps ==
    \E t \in Threads :
        \/ OpsCall(t)
        \/ EntityStep(t)
        \/ InitializeStep(t)
        \/ GetEnvStep(t)
        \/ FindClassStep(t)
        \/ CleanupStep(t)
        \/ Return(t)

SpecOps == Init /\ [][NextOps]_vars

----------------------------------------------------------------------------
(* The document entity operations of ndk_saf.rs with their data: one       *)
(* thread runs one operation at a time.  A step is a group of foreign      *)
(* calls between two decisions of the code.  `calls` records the calls     *)
(* that create an object or a reference, reach the provider or move the    *)
(* cursor; the others (string conversions, getters, constant reads) are    *)
(* made between them.  Any call may fail, and `?` then returns at once.    *)

\* What may become of a group of calls g: its first i calls are made, and
\* either the group returns (all made), or the last call made, or a call
\* not recorded that follows it, has failed.
Outcomes(g) ==
    {[made |-> i, threw |-> b] : i \in 0..Len(g), b \in BOOLEAN} \
    {[made |-> i, threw |-> FALSE] : i \in 0..(Len(g) - 1)}

Self == ents[running.self[1]][1]

\* The function returns: its locals are dropped.
ExitWith(status, value, f) ==
    /\ result' = [status |-> status, value |-> value]
    /\ pc' = "done"
    /\ files' = <<>>
    /\ obj' = None
    /\ failed' = f
\* `?` on a failed foreign call.
Throw == ExitWith("err_foreign", <<>>, TRUE)
\* The global references left when `files` is dropped.
DropFiles == {o \in objs : \A i \in 1..Len(files) : files[i].document_file # o.ref}

CallFromTreeUrl(url) ==
    /\ pc = "idle"
    /\ running' = [op |-> "from_tree_url", self |-> None, url |-> url, name |-> <<>>]
    /\ pc' = "get_env"
    /\ UNCHANGED <<docs, ents, objs, result, calls, cursor, files, obj, failed>>
    /\ UNCHANGED <<bridgeVars, lockVars, histVars, threadVars>>

\* The caller passes a DocumentFile object it has, or null.
CallFromDocumentFile(o) ==
    /\ pc = "idle"
    /\ running' = [op |-> "from_document_file", self |-> None, url |-> <<>>,
                   name |-> <<>>]
    /\ obj' = o
    /\ pc' = "fd_null"
    /\ UNCHANGED <<docs, ents, objs, result, calls, cursor, files, failed>>
    /\ UNCHANGED <<bridgeVars, lockVars, histVars, threadVars>>

\* A method of AndroidFileOps is called on the entity of slot s.
CallOn(o, s, name) ==
    /\ pc = "idle"
    /\ ents[s] # None
    /\ running' = [op |-> o, self |-> Some(s), url |-> ents[s][1].url, name |-> name]
    /\ pc' = "guard"
    /\ UNCHANGED <<docs, ents, objs, result, calls, cursor, files, obj, failed>>
    /\ UNCHANGED <<bridgeVars, lockVars, histVars, threadVars>>

\* `if self.is_dir` / `if !self.is_dir`; remove_file has no such test.
DocGuard ==
    /\ pc = "guard"
    /\ IF KindMismatch(running.op, Self.is_dir)
       THEN ExitWith("err_kind", <<>>, failed)
       ELSE /\ pc' = "get_env"
            /\ UNCHANGED <<result, files, obj, failed>>
    /\ UNCHANGED <<docs, ents, objs, running, calls, cursor>>
    /\ UNCHANGED <<bridgeVars, lockVars, histVars, threadVars>>

\* `let env_guard = get_env()?;`
DocGetEnv ==
    /\ pc = "get_env"
    /\ \E ok \in BOOLEAN :
         IF ok
         THEN /\ pc' = CASE running.op \in NeedsContext -> "context"
                         [] running.op = "remove_file" -> "delete"
                         [] OTHER -> "create"
              /\ UNCHANGED <<result, files, obj, failed>>
         ELSE ExitWith("err_env", <<>>, failed)
    /\ UNCHANGED <<docs, ents, objs, running, calls, cursor>>
    /\ UNCHANGED <<bridgeVars, lockVars, histVars, threadVars>>

\* get_global_context: find_class, then the application object and a global
\* reference to it, which the operation drops when it returns.
DocGetGlobalContext ==
    /\ pc = "context"
    /\ \/ ExitWith("err_class", <<>>, failed)
       \/ Throw
       \/ /\ pc' = CASE running.op = "from_tree_url" -> "resolve"
                     [] running.op = "open" -> "open"
                     [] OTHER -> "query"
          /\ UNCHANGED <<result, files, obj, failed>>
    /\ UNCHANGED <<docs, ents, objs, running, calls, cursor>>
    /\ UNCHANGED <<bridgeVars, lockVars, histVars, threadVars>>

\* DocumentFile.fromTreeUri(context, uri): the root document of the tree the
\* uri belongs to.
FromTreeUri(url) == MkObject("tree", DocUrl(TreeDocumentId(url)))

\* `if parent_str.starts_with(&input_str)`
IsRoot(parent_str, input_str) == StartsWith(parent_str, input_str)

\* from_tree_url up to the root test.
FromTreeUrlResolve ==
    /\ pc = "resolve"
    /\ \E r \in Outcomes(<<"fromTreeUri">>) :
         /\ calls' = calls \o SubSeq(<<"fromTreeUri">>, 1, r.made)
         /\ IF r.threw THEN Throw
            ELSE /\ obj' = Some(FromTreeUri(running.url))
                 /\ pc' = IF IsRoot(FromTreeUri(running.url).uri, running.url)
                          THEN "fd_null" ELSE "synthesize"
                 /\ UNCHANGED <<result, files, failed>>
    /\ UNCHANGED <<docs, ents, objs, running, cursor>>
    /\ UNCHANGED <<bridgeVars, lockVars, histVars, threadVars>>

\* `find_class("androidx/documentfile/provider/TreeDocumentFile")?`, then
\* `new TreeDocumentFile(parent, context, uri)`.
FromTreeUrlSynthesize ==
    /\ pc = "synthesize"
    /\ \/ /\ ExitWith("err_class", <<>>, failed)
          /\ UNCHANGED calls
       \/ /\ calls' = calls \o <<"NewObject">>
          /\ \/ Throw
             \/ /\ obj' = Some(MkObject("tree", running.url))
                /\ pc' = "fd_null"
                /\ UNCHANGED <<result, files, failed>>
    /\ UNCHANGED <<docs, ents, objs, running, cursor>>
    /\ UNCHANGED <<bridgeVars, lockVars, histVars, threadVars>>

\* The null test of from_document_file, mutated: it is not made.
NullObjectNever(o) == FALSE
\* `document_file.is_null()`
NullObject(o) == o = None

\* from_document_file: `if document_file.is_null() { return Err(..) }`
FromDocumentFileNull ==
    /\ pc = "fd_null"
    /\ IF NullObject(obj)
       THEN ExitWith("err_null", <<>>, failed)
       ELSE /\ pc' = "fd_env"
            /\ UNCHANGED <<result, files, obj, failed>>
    /\ UNCHANGED <<docs, ents, objs, running, calls, cursor>>
    /\ UNCHANGED <<bridgeVars, lockVars, histVars, threadVars>>

\* `let env_guard = get_env()?;` of from_document_file.
FromDocumentFileEnv ==
    /\ pc = "fd_env"
    /\ \E ok \in BOOLEAN :
         IF ok THEN /\ pc' = "fd_read"
                    /\ UNCHANGED <<result, files, obj, failed>>
         ELSE ExitWith("err_env", <<>>, failed)
    /\ UNCHANGED <<docs, ents, objs, running, calls, cursor>>
    /\ UNCHANGED <<bridgeVars, lockVars, histVars, threadVars>>

ReadCalls == <<"getName", "isDirectory", "NewGlobalRef">>

\* `.z().unwrap_or(false)` on what isDirectory returned.
IsDirValue(z) == IF z = None THEN FALSE ELSE z[1]

\* from_document_file reads the object and wraps it.  getName gives null for
\* a document the provider does not have, and get_string fails on null.
FromDocumentFileRead ==
    /\ pc = "fd_read"
    /\ LET o == obj[1]
           id == DocumentId(o.uri)
       IN \E r \in Outcomes(ReadCalls) :
            /\ Exists(id) \/ (r.made = 1 /\ r.threw)
            /\ calls' = calls \o SubSeq(ReadCalls, 1, r.made)
            /\ IF r.threw THEN Throw /\ UNCHANGED objs
               ELSE /\ objs' = objs \cup {[ref |-> NewRef, kind |-> o.kind, uri |-> o.uri]}
                    /\ ExitWith("ok",
                          <<MkEntity(ToStringLossy(Doc(id).name), Doc(id).size,
                                     UriPath(o.uri), o.uri,
                                     IsDirValue(Some(Doc(id).mime = MimeTypeDir)),
                                     NewRef, running.op)>>,
                          failed \/ IsLossy(Doc(id).name))
    /\ UNCHANGED <<docs, ents, running, cursor>>
    /\ UNCHANGED <<bridgeVars, lockVars, histVars, threadVars>>

\* open_content_url: the descriptor of the document, detached.
OpenContentUrl ==
    /\ pc = "open"
    /\ \E r \in Outcomes(<<"openFileDescriptor">>) :
         /\ Exists(DocumentId(running.url)) \/ r.threw
         /\ calls' = calls \o SubSeq(<<"openFileDescriptor">>, 1, r.made)
         /\ IF r.threw THEN Throw ELSE ExitWith("ok", <<>>, failed)
    /\ UNCHANGED <<docs, ents, objs, running, cursor>>
    /\ UNCHANGED <<bridgeVars, lockVars, histVars, threadVars>>

\* ContentResolver.query on the children of the document: null, or a cursor
\* over the rows of the children, which it gives in the order it likes.
QueryResults(id) ==
    {[state |-> "null", rows |-> {}, pos |-> 0],
     [state |-> "open", rows |-> {Row(d) : d \in Children(id)}, pos |-> 0]}

\* list_files up to `let mut files = Vec::new();`: when a call after the
\* query fails the cursor is there already.
ListQuery ==
    /\ pc = "query"
    /\ \E r \in Outcomes(<<"query">>) :
         /\ calls' = calls \o SubSeq(<<"query">>, 1, r.made)
         /\ IF r.threw
            THEN /\ Throw
                 /\ \/ UNCHANGED cursor
                    \/ /\ r.made = 1
                       /\ cursor' \in QueryResults(DocumentId(running.url))
            ELSE /\ cursor' \in QueryResults(DocumentId(running.url))
                 /\ pc' = "rows"
                 /\ UNCHANGED <<result, files, obj, failed>>
    /\ UNCHANGED <<docs, ents, objs, running>>
    /\ UNCHANGED <<bridgeVars, lockVars, histVars, threadVars>>

RowCalls == <<"moveToNext", "fromSingleUri", "NewGlobalRef">>

\* The cursor test, mutated: a null cursor is iterated like any other.
CursorIsNullNever(c) == FALSE
\* `cursor.is_null()`
CursorIsNull(c) == c.state = "null"

\* The classification, mutated: the MIME type is compared with a file type.
IsDirOfMimeText(mime_type) == mime_type = MimeText
\* `mime_type.equals(MIME_TYPE_DIR)`
IsDirOfMime(mime_type) == mime_type = MimeTypeDir

\* One turn of `while moveToNext()`: the next row is read; fromSingleUri
\* gives null and the row is passed over, or its entity is pushed to `files`.
ListRow ==
    /\ pc = "rows"
    /\ ~CursorIsNull(cursor)
    /\ \E r \in cursor.rows :
         LET uri == DocUrl(r.document_id)
         IN /\ cursor' = [cursor EXCEPT !.rows = @ \ {r}, !.pos = @ + 1]
            /\ \/ /\ calls' = calls \o SubSeq(RowCalls, 1, 2)
                  /\ UNCHANGED <<pc, result, files, obj, failed, objs>>
               \/ \E c \in Outcomes(RowCalls) :
                    /\ c.made >= 1
                    /\ calls' = calls \o SubSeq(RowCalls, 1, c.made)
                    /\ IF c.threw
                       THEN /\ Throw
                            /\ objs' = DropFiles
                       ELSE /\ objs' = objs \cup
                                 {[ref |-> NewRef, kind |-> "single", uri |-> uri]}
                            /\ files' = Append(files,
                                  MkEntity(ToStringLossy(r.display_name), r.size,
                                           UriPath(uri), uri, IsDirOfMime(r.mime_type),
                                           NewRef, "list_files"))
                            /\ failed' = (failed \/ IsLossy(r.display_name))
                            /\ UNCHANGED <<pc, result, obj>>
    /\ UNCHANGED <<docs, ents, running>>
    /\ UNCHANGED <<bridgeVars, lockVars, histVars, threadVars>>

\* The end of the loop, mutated: the cursor is not closed.
CloseCallsNoClose == <<"moveToNext">>
\* The moveToNext that gives false, then `cursor.close()`.
CloseCalls == <<"moveToNext", "close">>

\* The loop ends and the cursor is closed, or the cursor was null; then
\* `files.sort_by(..); Ok(files)`.
ListFinish ==
    /\ pc = "rows"
    /\ IF CursorIsNull(cursor)
       THEN /\ ExitWith("ok", SortBy(files), failed)
            /\ UNCHANGED <<calls, cursor, objs>>
       ELSE /\ cursor.rows = {}
            /\ \E c \in Outcomes(CloseCalls) :
                 /\ c.made >= 1
                 /\ calls' = calls \o SubSeq(CloseCalls, 1, c.made)
                 /\ IF c.threw
                    THEN /\ Throw
                         /\ objs' = DropFiles
                         /\ UNCHANGED cursor
                    ELSE /\ ExitWith("ok", SortBy(files), failed)
                         /\ cursor' = [cursor EXCEPT !.state = "closed"]
                         /\ UNCHANGED objs
    /\ UNCHANGED <<docs, ents, running>>
    /\ UNCHANGED <<bridgeVars, lockVars, histVars, threadVars>>

\* The names a caller asks for.
ReqNames == {NameA, NameE}

\* The name the provider gives the new document: for a file the extension
\* of the MIME type is appended when the name does not have it, and " (1)"
\* is appended when the directory has a child of that name.
PlatformName(o, parent, name) ==
    LET ext == <<46, 116, 120, 116>>
        hasExt == Len(ext) <= Len(name)
                  /\ SubSeq(name, Len(name) - Len(ext) + 1, Len(name)) = ext
        full == IF o = "create_file" /\ ~hasExt THEN name \o ext ELSE name
    IN IF \E d \in Children(parent) : d.name = full
       THEN full \o <<32, 40, 49, 41>>
       ELSE full

\* create_file / create_directory up to from_document_file: the provider
\* creates the document under the one self.document_file refers to and
\* gives its object, or gives null; a SingleDocumentFile cannot create.
CreateDocument ==
    /\ pc = "create"
    /\ LET g == IF running.op = "create_file" THEN <<"createFile">>
                ELSE <<"createDirectory">>
           parent == Object(Self.document_file)
       IN \E r \in Outcomes(g) :
            /\ calls' = calls \o SubSeq(g, 1, r.made)
            /\ IF r.threw THEN Throw /\ UNCHANGED docs
               ELSE /\ parent.kind = "tree"
                    /\ \/ /\ obj' = None
                          /\ UNCHANGED docs
                       \/ \E id \in FreshIds :
                            /\ ~Exists(id)
                            /\ Exists(DocumentId(parent.uri))
                            /\ docs' = docs \cup
                                 {MkDoc(id,
                                        PlatformName(running.op, DocumentId(parent.uri),
                                                     running.name),
                                        0,
                                        IF running.op = "create_file" THEN MimeText
                                        ELSE MimeTypeDir,
                                        Some(DocumentId(parent.uri)))}
                            /\ obj' = Some(MkObject("tree", DocUrl(id)))
                    /\ pc' = "fd_null"
                    /\ UNCHANGED <<result, files, failed>>
    /\ UNCHANGED <<ents, objs, running, cursor>>
    /\ UNCHANGED <<bridgeVars, lockVars, histVars, threadVars>>

\* The result of remove_file, mutated: a false from the platform is an error.
RemoveResultStrict(deleted) == IF deleted THEN "true" ELSE "err_foreign"
\* `Ok(result)`
RemoveResult(deleted) == IF deleted THEN "true" ELSE "false"

\* remove_file: DocumentFile.delete() removes the document and what is below
\* it and gives true, or gives false.
RemoveDelete ==
    /\ pc = "delete"
    /\ calls' = calls \o <<"delete">>
    /\ LET id == DocumentId(Object(Self.document_file).uri)
       IN \/ /\ Throw
             /\ UNCHANGED docs
          \/ \E deleted \in BOOLEAN :
               /\ deleted => Exists(id)
               /\ docs' = IF deleted THEN {d \in docs : d.id \notin Below(docs, {id})}
                          ELSE docs
               /\ ExitWith(RemoveResult(deleted), <<>>, failed)
    /\ UNCHANGED <<ents, objs, running, cursor>>
    /\ UNCHANGED <<bridgeVars, lockVars, histVars, threadVars>>

FreeSlots == {s \in Slots : ents[s] = None}

\* `#[derive(Clone)]`: every field is cloned, and the clone of a GlobalRef
\* is another handle of the same global reference.
CloneEntity(s) ==
    /\ pc = "idle"
    /\ ents[s] # None
    /\ FreeSlots # {}
    /\ LET free == CHOOSE f \in FreeSlots : \A u \in FreeSlots : f <= u
       IN ents' = [ents EXCEPT ![free] = ents[s]]
    /\ UNCHANGED <<docs, objs, pc, running, result, calls, cursor, files, obj, failed>>
    /\ UNCHANGED <<bridgeVars, lockVars, histVars, threadVars>>

\* The caller drops an entity, and the ones it keeps are the first of its
\* slots; the last handle of a global reference deletes it.
DropEntity(s) ==
    /\ pc = "idle"
    /\ ents[s] # None
    /\ LET kept == SelectSeq([ents EXCEPT ![s] = None], LAMBDA x : x # None)
       IN ents' = [i \in Slots |-> IF i <= Len(kept) THEN kept[i] ELSE None]
    /\ objs' = IF Holders(ents[s][1].document_file) = 1
               THEN {o \in objs : o.ref # ents[s][1].document_file}
               ELSE objs
    /\ UNCHANGED <<docs, pc, running, result, calls, cursor, files, obj, failed>>
    /\ UNCHANGED <<bridgeVars, lockVars, histVars, threadVars>>

\* The caller has the result.  It drops it (k = 0), or it drops what it
\* holds and keeps one of the returned entities (k).
ReturnDocs ==
    /\ pc = "done"
    /\ \E k \in 0..Len(result.value) :
         /\ ents' = IF k = 0 THEN ents
                    ELSE [s \in Slots |-> IF s = 1 THEN Some(result.value[k]) ELSE None]
         /\ objs' = {o \in objs :
                       IF k = 0
                       THEN \E s \in Slots :
                              ents[s] # None /\ ents[s][1].document_file = o.ref
                       ELSE result.value[k].document_file = o.ref}
    /\ pc' = "idle"
    /\ running' = NoOp
    /\ result' = NoResult
    /\ calls' = <<>>
    /\ cursor' = NoCursor
    /\ files' = <<>>
    /\ obj' = None
    /\ failed' = FALSE
    /\ UNCHANGED docs
    /\ UNCHANGED <<bridgeVars, lockVars, histVars, threadVars>>

\* The tree the user granted has its root and any of the other documents;
\* no thread is in the bridge.
InitDocs ==
    /\ initOnce = "incomplete"
    /\ jvm = None
    /\ classLoader = None
    /\ findClassMethod = None
    /\ rd = [l \in Locks |-> {}]
    /\ wr = [l \in Locks |-> {}]
    /\ globalRefs = {}
    /\ nextRef = 0
    /\ cleaned = FALSE
    /\ setupSinceCleanup = FALSE
    /\ setupRuns = 0
    /\ setupOutcome = "none"
    /\ owned = [t \in Threads |-> FALSE]
    /\ attached = owned
    /\ guards = [t \in Threads |-> <<>>]
    /\ stk = [t \in Threads |-> <<>>]
    /\ cur = [t \in Threads |-> NoCall]
    /\ rv = [t \in Threads |-> "none"]
    /\ foreign = [t \in Threads |-> FALSE]
    /\ via = [t \in Threads |-> "none"]
    /\ loc = [t \in Threads |-> None]
    /\ docs \in {ds \in SUBSET (OtherDocs \cup {RootDoc}) : WellFormed(ds)}
    /\ ents = [s \in Slots |-> None]
    /\ objs = {}
    /\ pc = "idle"
    /\ running = NoOp
    /\ result = NoResult
    /\ calls = <<>>
    /\ cursor = NoCursor
    /\ files = <<>>
    /\ obj = None
    /\ failed = FALSE

\* The objects a caller of from_document_file may pass.
CallerObjects == {None, Some(MkObject("tree", DocUrl(<<"3", "1">>)))}

NextDocs ==
    \/ \E url \in Urls : CallFromTreeUrl(url)
    \/ \E o \in CallerObjects : CallFromDocumentFile(o)
    \/ \E o \in EntityOps \ {"from_tree_url", "from_document_file"}, s \in Slots :
          \E name \in IF o \in {"create_file", "create_directory"} THEN ReqNames
                       ELSE {<<>>} :
             CallOn(o, s, name)
    \/ DocGuard
    \/ DocGetEnv
    \/ DocGetGlobalContext
    \/ FromTreeUrlResolve
    \/ FromTreeUrlSynthesize
    \/ FromDocumentFileNull
    \/ FromDocumentFileEnv
    \/ FromDocumentFileRead
    \/ OpenContentUrl
    \/ ListQuery
    \/ ListRow
    \/ ListFinish
    \/ CreateDocument
    \/ RemoveDelete
    \/ \E s \in Slots : CloneEntity(s)
    \/ \E s \in Slots : DropEntity(s)
    \/ ReturnDocs

SpecDocs == InitDocs /\ [][NextDocs]_vars

----------------------------------------------------------------------------
(* Properties *)

\* The frames at which the thread is about to make, or is making, a foreign
\* call into the runtime.
ForeignFrames == {"init_setup", "ge_attach", "fc_call_loader", "fc_call_default",
                  "cl_dropref", "op_body", "fd_read"}

AllAbsent == classLoader = None /\ findClassMethod = None /\ jvm = None

\* C1: a thread that holds the guards of both CLASS_LOADER and
\* FIND_CLASS_METHOD, as is_class_loader_initialized and find_class do, sees
\* the class loader present if and only if the method identifier is present.
C1_BothOrNeitherObserved ==
    \A t \in Threads :
        {"CL", "FCM"} \subseteq HeldBy(t) =>
            ((classLoader = None) <=> (findClassMethod = None))

\* C2: the call_once closure is entered at most once, and exactly once when
\* an initialize_class_loader call has returned; one class loader reference
\* is ever created, so every reader sees that one or none; and a call that
\* returns with no cleanup before or during it, after a setup that
\* succeeded, leaves the class loader and the method identifier cached.
C2_SetupExactlyOnce ==
    /\ setupRuns <= 1
    /\ nextRef <= 1
    /\ classLoader \in {None, Some(1)}
    /\ \A t \in Threads : cur[t].op = "find_class" => loc[t] \in {None, Some(1)}
    /\ \A t \in Threads :
        Done(t) /\ cur[t].op = "initialize" =>
            /\ setupRuns = 1
            /\ initOnce = "complete"
            /\ (~cur[t].stale /\ ~cur[t].afterCleanup /\ setupOutcome = "ok") =>
                   (classLoader = Some(1) /\ findClassMethod # None)

\* C2 witness: two initialize_class_loader calls have returned and the
\* class loader is cached.
C2_Witness ==
    \E t, u \in Threads :
        /\ t # u
        /\ Done(t) /\ cur[t].op = "initialize"
        /\ Done(u) /\ cur[u].op = "initialize"
        /\ classLoader = Some(1)

\* C3: when an initialize_class_loader call that started after a cleanup
\* had returned, and that no cleanup overlaps, returns, the setup has run
\* since that cleanup, and the class loader it resolved is cached again.
C3_ReinitializesAfterCleanup ==
    \A t \in Threads :
        (Done(t) /\ cur[t].op = "initialize" /\ cur[t].afterCleanup /\ ~cur[t].stale) =>
            /\ setupSinceCleanup
            /\ setupOutcome = "ok" => (classLoader # None /\ findClassMethod # None)

\* C4 as stated: a find_class call that returns while no class loader was
\* ever cached, and whose thread could be attached, has gone through the
\* runtime's default lookup.
C4_AbsentResolverFallsBack ==
    \A t \in Threads :
        (Done(t) /\ cur[t].op = "find_class" /\ nextRef = 0 /\ rv[t] # "err_attach") =>
            via[t] = "default"

\* C4 amended: find_class makes its lookup with the class loader it sees
\* under the read guards: through the cached class loader when it is present,
\* through the default lookup when it is absent; and it makes no lookup, and
\* returns get_env's error, exactly when get_env failed.
C4_FallbackWhenAttached ==
    \A t \in Threads :
        /\ Top(t) = "fc_call_loader" => classLoader # None
        /\ Top(t) = "fc_call_default" => classLoader = None
        /\ (Done(t) /\ cur[t].op = "find_class") =>
              IF rv[t] \in {"err_uninit", "err_attach"}
              THEN via[t] = "none" /\ ~("CL" \in HeldBy(t))
              ELSE /\ rv[t] \in {"ok", "err_foreign"}
                   /\ via[t] = IF loc[t] # None THEN "loader" ELSE "default"

\* C4 witness: a find_class call has returned a class found by the default
\* lookup, the class loader being absent.
C4_Witness ==
    \E t \in Threads :
        Done(t) /\ cur[t].op = "find_class" /\ via[t] = "default" /\ rv[t] = "ok"

\* C5: a thread that is at a foreign call holds no lock of the bridge.
C5_NoForeignCallUnderLock ==
    \A t \in Threads : Top(t) \in ForeignFrames => HeldBy(t) = {}

\* C6: a thread of the runtime is attached in every state; a thread is
\* detached only by the release of a guard whose acquisition attached it; and
\* a guard detaches on release exactly when its acquisition found the thread
\* not attached.
C6_GuardDetachesOnlyOwnAttach ==
    /\ [](\A t \in Threads : owned[t] => attached[t])
    /\ [][\A t \in Threads :
            /\ (attached[t] /\ ~attached'[t]) =>
                  \E i \in 1..Len(guards[t]) :
                      guards[t][i] /\ guards'[t] = RemoveAt(guards[t], i)
            /\ Len(guards'[t]) = Len(guards[t]) + 1 =>
                  /\ guards'[t] = Append(guards[t], ~attached[t])
                  /\ attached'[t]]_vars

\* C6 witness: a thread of the runtime holds two guards of nested get_env
\* calls, neither of which detaches.
C6_Witness ==
    \E t \in Threads : owned[t] /\ Idle(t) /\ guards[t] = <<FALSE, FALSE>>

\* C7: a get_env that finds the runtime handle absent returns its error and
\* leaves the thread's attachment and guards as they were; and an entity
\* operation whose get_env returned that error returns it without having
\* made a foreign call.
C7_UninitializedBridgeFails ==
    [][\A t \in Threads :
          /\ (Top(t) = "ge_read" /\ jvm = None /\ stk'[t] # stk[t]) =>
                /\ rv'[t] = "err_uninit"
                /\ stk'[t] = Ret(stk[t])
                /\ attached'[t] = attached[t]
                /\ guards'[t] = guards[t]
                /\ foreign'[t] = foreign[t]
          /\ (stk[t] \in {<<"op_after_env">>, <<"fd_after_env">>}
                /\ rv[t] = "err_uninit" /\ stk'[t] # stk[t]) =>
                /\ Done(t)'
                /\ rv'[t] = "err_uninit"
                /\ ~foreign'[t]
                /\ attached'[t] = attached[t]
                /\ guards'[t] = guards[t]]_vars

\* C7 witness: after a cleanup, an entity operation has returned the error
\* of the absent runtime handle without a foreign call.
C7_Witness ==
    \E t \in Threads :
        /\ Done(t) /\ cur[t].op \in EntityOps
        /\ rv[t] = "err_uninit" /\ ~foreign[t] /\ cleaned

\* C8: a cleanup_class_loader call that the setup closure does not overlap
\* returns with the class loader, the method identifier and the runtime
\* handle absent; and a step of cleanup taken when the three are absent
\* leaves them absent.
C8_CleanupClearsAll ==
    /\ [](\A t \in Threads :
            (Done(t) /\ cur[t].op = "cleanup" /\ ~cur[t].stale) => AllAbsent)
    /\ [][\A t \in Threads :
            (Top(t) \in CleanupFrames /\ stk'[t] # stk[t] /\ AllAbsent) => AllAbsent']_vars

\* C8 witness: a cleanup has returned after a successful setup: the one
\* class loader reference was created and is deleted.
C8_Witness ==
    \E t \in Threads :
        /\ Done(t) /\ cur[t].op = "cleanup" /\ ~cur[t].stale
        /\ nextRef = 1 /\ globalRefs = {}

\* C9: every initialize_class_loader call returns Ok; after a failed setup
\* no class loader reference exists and none is cached; and the closure is
\* not entered again.
C9_InitializeNeverFails ==
    /\ \A t \in Threads : (Done(t) /\ cur[t].op = "initialize") => rv[t] = "ok"
    /\ setupOutcome = "err" =>
          (classLoader = None /\ findClassMethod = None /\ globalRefs = {})
    /\ setupRuns <= 1

\* C9 witness: two initialize_class_loader calls have returned Ok after the
\* setup failed.
C9_Witness ==
    \E t, u \in Threads :
        /\ t # u
        /\ Done(t) /\ cur[t].op = "initialize" /\ rv[t] = "ok"
        /\ Done(u) /\ cur[u].op = "initialize" /\ rv[u] = "ok"
        /\ setupOutcome = "err"

\* C10: an open on a directory entity, and a list_files, create_file or
\* create_directory on an entity that is no directory, never leaves its kind
\* guard except by returning the error: it makes no foreign call, takes no
\* guard and no lock.
C10_KindGuardBeforeAttach ==
    \A t \in Threads :
        (/\ ~Idle(t)
         /\ \/ cur[t].op = "open" /\ cur[t].isDir
            \/ cur[t].op \in {"list_files", "create_file", "create_directory"}
                 /\ ~cur[t].isDir) =>
            /\ Top(t) \in {"op_guard", "done"}
            /\ ~foreign[t]
            /\ HeldBy(t) = {}
            /\ Done(t) => rv[t] = "err_kind"

\* C10 witness: a list_files on a file entity has returned the kind error on
\* a thread that is not attached.
C10_Witness ==
    \E t \in Threads :
        /\ Done(t) /\ cur[t].op = "list_files" /\ ~cur[t].isDir
        /\ rv[t] = "err_kind" /\ ~attached[t] /\ jvm # None

\* C11: two live entity values never hold the same global reference, also
\* after an AndroidFile was cloned.
C11_ExclusiveReference == \A r \in Refs : Holders(r) <= 1

\* C12: when a foreign call of an entity operation fails, or the conversion
\* of what it returned, the operation stops there and returns the error,
\* and no entity: no failure is replaced by a default value or passed over.
C12_FailureIsReturned ==
    failed => /\ pc = "done"
              /\ result.status = "err_foreign"
              /\ result.value = <<>>

\* C13: the sequence list_files returns is sorted by filename, in
\* non-decreasing order, whatever the order of the rows; children named
\* b.txt, a.txt, c.txt are returned as a.txt, b.txt, c.txt.
C13_ListIsSorted ==
    (pc = "done" /\ running.op = "list_files" /\ result.status = "ok") =>
        LET v == result.value
        IN /\ \A i \in 1..(Len(v) - 1) :
                StrCmp(v[i].filename, v[i + 1].filename) # "greater"
           /\ (Len(v) = 3 /\ {v[i].filename : i \in 1..3} = {NameA, NameB, NameC})
                => <<v[1].filename, v[2].filename, v[3].filename>>
                     = <<NameA, NameB, NameC>>

\* list_files has returned a.txt, b.txt, c.txt for rows that came in the
\* order b.txt, a.txt, c.txt (the references were made in that order).
C13_Witness ==
    /\ pc = "done" /\ running.op = "list_files" /\ result.status = "ok"
    /\ Len(result.value) = 3
    /\ <<result.value[1].filename, result.value[2].filename, result.value[3].filename>>
         = <<NameA, NameB, NameC>>
    /\ result.value[2].document_file < result.value[1].document_file
    /\ result.value[1].document_file < result.value[3].document_file

\* C14: for an entity e made by from_tree_url, list_files, create_file or
\* create_directory, from_tree_url(e.url) returns, when it returns an
\* entity, one with the filename and the is_dir of e, the documents being
\* as they were when e was made (e says what the provider has for e.url).
C14_RoundTrip ==
    (pc = "done" /\ running.op = "from_tree_url" /\ result.status = "ok") =>
        \A s \in Slots :
            (/\ ents[s] # None
             /\ ents[s][1].url = running.url
             /\ ents[s][1].by \in {"from_tree_url", "list_files", "create_file",
                                   "create_directory"}
             /\ LET e == ents[s][1]
                    id == DocumentId(e.url)
                IN /\ Exists(id)
                   /\ e.filename = ToStringLossy(Doc(id).name)
                   /\ e.is_dir = (Doc(id).mime = MimeTypeDir))
            => /\ result.value[1].filename = ents[s][1].filename
               /\ result.value[1].is_dir = ents[s][1].is_dir

\* C15: from_tree_url returns the root entity exactly when the locator
\* denotes the root; for a locator of a descendant it returns an entity
\* synthesized for that locator, whose url is the locator; in neither case
\* does it query or enumerate.  A locator denotes the document after
\* /document/, and the root of the tree when it is the tree's alone.
C15_RootOnlyForRoot ==
    LET denoted == IF DocMarks(running.url) = {} THEN TreeDocumentId(running.url)
                   ELSE DocumentId(running.url)
        Called == {calls[i] : i \in 1..Len(calls)}
    IN
    (/\ pc = "done" /\ running.op = "from_tree_url" /\ result.status = "ok"
     /\ Exists(denoted)) =>
        LET e == result.value[1]
            root == denoted = RootId
        IN /\ (e.url = DocUrl(RootId) /\ "NewObject" \notin Called) <=> root
           /\ ~root => (e.url = running.url /\ "NewObject" \in Called)
           /\ Called \cap {"query", "moveToNext", "close", "fromSingleUri"} = {}

\* C16: when the query of list_files gives a null result set, list_files
\* calls no method of the cursor (no row iteration, no close) and, no
\* foreign call having failed, returns success with an empty sequence.
C16_NullCursorIsEmpty ==
    (pc = "done" /\ running.op = "list_files" /\ cursor.state = "null") =>
        /\ {calls[i] : i \in 1..Len(calls)} \cap {"moveToNext", "close", "fromSingleUri"} = {}
        /\ ~failed => (result.status = "ok" /\ result.value = <<>>)

\* list_files has returned for a directory that has children and whose query
\* gave null.
C16_Witness ==
    /\ pc = "done" /\ running.op = "list_files" /\ cursor.state = "null"
    /\ result = [status |-> "ok", value |-> <<>>]
    /\ Children(DocumentId(running.url)) # {}
    /\ calls = <<"query">>

\* C17: every entity list_files makes for a row has is_dir = TRUE when the
\* MIME type of the row is the directory MIME type, and is_dir = FALSE for
\* any other MIME type.
C17_DirectoryByMimeType ==
    (running.op = "list_files" /\ pc \in {"rows", "done"}) =>
        \A i \in 1..Len(LiveSeq) :
            LET e == LiveSeq[i]
                row == Row(Doc(DocumentId(e.url)))
            IN /\ Exists(DocumentId(e.url))
               /\ row.mime_type = MimeTypeDir => e.is_dir
               /\ row.mime_type # MimeTypeDir => ~e.is_dir

\* list_files has returned a directory and a file.
C17_Witness ==
    /\ pc = "done" /\ running.op = "list_files" /\ result.status = "ok"
    /\ \E i, j \in 1..Len(result.value) :
         /\ result.value[i].is_dir
         /\ Doc(DocumentId(result.value[i].url)).mime = MimeTypeDir
         /\ ~result.value[j].is_dir
         /\ Doc(DocumentId(result.value[j].url)).mime = MimeText

\* C18: remove_file returns Ok(true) exactly when delete has removed the
\* document and Ok(false) when delete reports false; it returns an error
\* only when a foreign call has failed, and never for the kind of the entity.
C18_RemoveReportsDelete ==
    /\ [](running.op = "remove_file" =>
            /\ pc \notin {"context", "create"}
            /\ pc = "done" => result.status \in {"true", "false", "err_env", "err_foreign"}
            /\ (pc = "done" /\ result.status = "err_foreign") => failed)
    /\ [][(pc = "delete" /\ pc' = "done") =>
            /\ result'.status = "true" <=> docs' # docs
            /\ (docs' = docs /\ ~failed') => result'.status = "false"]_vars

\* remove_file has returned Ok(false) for a directory that is still there.
C18_Witness ==
    /\ pc = "done" /\ running.op = "remove_file"
    /\ result.status = "false"
    /\ Self.is_dir
    /\ Exists(DocumentId(Self.url))
    /\ calls = <<"delete">>

\* C19: create_file and create_directory make the creation call once, and
\* the entity they return has the name, the locator and the kind of the
\* document the platform has created under the directory, whatever name was
\* asked for; when no document was created no entity is returned.
C19_CreatedAsThePlatformMadeIt ==
    LET CreationCalls ==
            {i \in 1..Len(calls) : calls[i] \in {"createFile", "createDirectory"}}
    IN
    (pc = "done" /\ running.op \in {"create_file", "create_directory"}) =>
        /\ Cardinality(CreationCalls) <= 1
        /\ result.status = "ok" =>
             LET e == result.value[1]
                 id == DocumentId(e.url)
             IN /\ Cardinality(CreationCalls) = 1
                /\ id \in FreshIds /\ Exists(id)
                /\ Doc(id).parent = Some(DocumentId(Self.url))
                /\ e.url = DocUrl(id)
                /\ e.filename = Doc(id).name
                /\ e.is_dir = (Doc(id).mime = MimeTypeDir)
                /\ e.is_dir = (running.op = "create_directory")

\* C20: from_document_file on a null object returns an error at its first
\* step: it does not go on to get_env (no thread is attached), makes no
\* foreign call and no global reference; the bridge need not be initialized.
C20_NullObjectRejectedFirst ==
    /\ []((pc = "done" /\ running.op = "from_document_file"
                       /\ result.status = "err_null") => (calls = <<>> /\ ~failed))
    /\ [][(pc = "fd_null" /\ obj = None) =>
            /\ pc' = "done"
            /\ result' = [status |-> "err_null", value |-> <<>>]
            /\ calls' = calls
            /\ objs' = objs
            /\ attached' = attached]_vars

\* from_document_file(null) has returned its error, the bridge never having
\* been initialized.
C20_Witness ==
    /\ pc = "done" /\ running.op = "from_document_file"
    /\ result.status = "err_null"
    /\ calls = <<>>
    /\ objs = {}
    /\ initOnce = "incomplete" /\ jvm = None
    /\ \A t \in Threads : ~attached[t]

\* C21: when list_files returns, with success or with an error, the cursor
\* its query gave is not left open.
C21_NoCursorLeftOpen ==
    (pc = "done" /\ running.op = "list_files") => cursor.state # "open"

\* C22: when list_files returns success and its query gave a cursor, close
\* was called on the cursor exactly once, as the last foreign call, after
\* every row was read; when the close call fails list_files returns an error.
C22_ClosedOnceAtTheEnd ==
    LET closes == {i \in 1..Len(calls) : calls[i] = "close"}
    IN (pc = "done" /\ running.op = "list_files" /\ cursor.state # "null") =>
         /\ result.status = "ok" =>
              /\ cursor.state = "closed"
              /\ cursor.rows = {}
              /\ closes = {Len(calls)}
         /\ (closes # {} /\ cursor.state = "open") =>
              /\ result.status = "err_foreign"
              /\ result.value = <<>>

\* list_files has returned two entities or more and has closed its cursor.
C22_Witness ==
    /\ pc = "done" /\ running.op = "list_files" /\ result.status = "ok"
    /\ Len(result.value) >= 2
    /\ cursor.state = "closed"
    /\ calls[Len(calls)] = "close"

\* C23: what list_files returns does not depend on the order in which the
\* cursor gives the rows: the same rows given in any other order q are
\* returned as the same sequence of filename, url, size and is_dir, also
\* when two of them have the same display name.
C23_OrderOfRowsDoesNotMatter ==
    (pc = "done" /\ running.op = "list_files" /\ result.status = "ok") =>
        LET v == result.value
            n == Len(v)
            Seen(w) == [i \in 1..n |->
                          <<w[i].filename, w[i].url, w[i].size, w[i].is_dir>>]
        IN \A p \in {f \in [1..n -> 1..n] : \A i, j \in 1..n : f[i] = f[j] => i = j} :
             Seen(SortBy([i \in 1..n |-> v[p[i]]])) = Seen(v)

\* C24: a successful list_files returns one entity for each row of the
\* query and no other: the entity has the display name and the size of the
\* row and the locator built from the document id of the row; one
\* fromSingleUri is made per row and the query is made once.
C24_OneEntityPerRow ==
    (pc = "done" /\ running.op = "list_files" /\ result.status = "ok"
                 /\ cursor.state = "closed") =>
        LET rows == {Row(d) : d \in Children(DocumentId(running.url))}
            v == result.value
            Count(c) == Cardinality({i \in 1..Len(calls) : calls[i] = c})
        IN /\ Len(v) = Cardinality(rows)
           /\ \A r \in rows :
                Cardinality({i \in 1..Len(v) :
                               /\ v[i].url = DocUrl(r.document_id)
                               /\ v[i].filename = r.display_name
                               /\ v[i].size = r.size}) = 1
           /\ Count("fromSingleUri") = Cardinality(rows)
           /\ Count("query") = 1

\* C25: a thread that was not attached when it called an operation is
\* attached as long as the operation holds a guard, only the outermost guard
\* of the operation detaches, the thread is detached only when that guard is
\* released, and it is detached again when the operation has returned.
C25_AttachmentIsBalanced ==
    /\ [](\A t \in Threads :
            /\ (Idle(t) \/ Done(t)) => (guards[t] = <<>> /\ attached[t] = owned[t])
            /\ guards[t] # <<>> => attached[t]
            /\ \A i \in 2..Len(guards[t]) : ~guards[t][i]
            /\ (~owned[t] /\ guards[t] # <<>>) => guards[t][1])
    /\ [][\A t \in Threads :
            (attached[t] /\ ~attached'[t]) => (~owned[t] /\ guards'[t] = <<>>)]_vars

\* A thread that was not attached has listed a directory and is detached:
\* list_files has returned Ok with its guard and the guards of the functions
\* it called released.
C25_Witness ==
    \E t \in Threads :
        /\ Done(t) /\ cur[t].op = "list_files" /\ rv[t] = "ok"
        /\ ~owned[t] /\ ~attached[t] /\ guards[t] = <<>>
        /\ foreign[t]

\* A step of the bridge function that thread t is running.
Running(t) ==
    \/ InitializeStep(t)
    \/ GetEnvStep(t)
    \/ FindClassStep(t)
    \/ CleanupStep(t)
    \/ IsInitializedStep(t)

\* C26: the calls of the bridge never deadlock: the threads that are inside
\* a call are never all waiting, for the Once or for a lock, so as long as a
\* call has not returned some call can take its next step.
C26_NoDeadlock ==
    LET Inside == {t \in Threads : ~Idle(t) /\ ~Done(t)}
    IN Inside # {} => \E t \in Inside : ENABLED Running(t)

\* Both threads are inside calls and one of them waits: a cleanup for the
\* write guard of CLASS_LOADER, which a find_class holds for reading.
C26_Witness ==
    \E t, u \in Threads :
        /\ Top(t) = "cl_take" /\ ~ENABLED Running(t)
        /\ cur[u].op = "find_class" /\ u \in rd["CL"]

\* C27: while a find_class is at its call of the cached class loader's
\* findClass, the global reference it has observed exists; cleanup releases
\* the reference only in a step in which no find_class is at that call.
C27_LoaderAliveWhileUsed ==
    /\ [](\A t \in Threads :
            Top(t) = "fc_call_loader" =>
                /\ loc[t] # None
                /\ loc[t][1] \in globalRefs
                /\ classLoader = loc[t])
    /\ [][globalRefs' # globalRefs /\ globalRefs' \subseteq globalRefs =>
            \A t \in Threads : Top(t) # "fc_call_loader"]_vars

\* A cleanup has released the class loader reference after a concurrent
\* find_class has made its lookup through that class loader.
C27_Witness ==
    \E t, u \in Threads :
        /\ cur[t].op = "cleanup" /\ Top(t) = "cl_fcm"
        /\ globalRefs = {} /\ nextRef = 1
        /\ cur[u].op = "find_class" /\ via[u] = "loader" /\ Top(u) = "fc_drop"

====
